---- MODULE Spec2Model ----
(***************************************************************************)
(* The suggestion lifecycle of the Autocomplete widget                     *)
(* (src/src/autocomplete.ts and its VanillaJS build src/src/autocomplete.js)*)
(* as a state machine: debounce -> fetch -> render -> navigate ->          *)
(* select/dismiss.                                                         *)
(*                                                                         *)
(* The whole system (the Autocomplete object, the input element it is      *)
(* attached to, the browser's pending timers and the promises of the       *)
(* suggestion source still in flight) is one record, w.  Every method of   *)
(* the class is an operator from records to records that carries the       *)
(* method's name; every browser event is one action of Next.               *)
(*                                                                         *)
(* Indices: activeIndex is 0-based, as in the source; TLA+ sequences are    *)
(* 1-based, so suggestions[i] of the source is items[i + 1] here.          *)
(*                                                                         *)
(* Not kept: the style classes of the rendered items (highlightActive      *)
(* changes nothing else), the panel's position and the DOM around the      *)
(* input.                                                                  *)
(***************************************************************************)
EXTENDS Integers, Sequences, FiniteSets, TLC

VARIABLES w

vars == <<w>>

(***************************************************************************)
(* Bounds of the model.                                                    *)
(***************************************************************************)
\* the suggestion source returns at most MaxResult items
MaxResult == 3
\* at most MaxInFlight promises of the source are unresolved at a time
MaxInFlight == 1
\* at most MaxBlurTimers of the blur listener's 150 ms timers are pending
MaxBlurTimers == 1
\* the input has at most MaxSiblings siblings before it and as many after it
MaxSiblings == 2

\* the two shipped builds
Builds == {"ts", "js"}

\* values a user can type into the field (a character is "a", "b" or a blank)
Values ==
  { <<>>, <<" ", "a">>, <<"a", "b">> }

\* suggestion items: caller-defined records, as the countries of the demo
Items ==
  { [name |-> <<"a">>, id |-> 1], [name |-> <<"a", "b">>, id |-> 2] }

\* the options a caller may pass (the model's choices of them)
MaxSuggestionsChoices == {2}
MinCharsChoices == {2}

\* the arrays the source returns: up to MaxResult items, the two items
\* alternating
Arrays ==
  { [i \in 1 .. n |-> CHOOSE item \in Items : item.id = 2 - (i % 2)] :
      n \in 0 .. MaxResult }

\* what a call of the suggestion source can produce once it settles:
\* an array of items, a non-sequence value (null), or a fault
ArrayResults == {[tag |-> "array", items |-> r] : r \in Arrays}
NullResult == [tag |-> "null", items |-> <<>>]
ThrowResult == [tag |-> "throw", items |-> <<>>]
RejectResult == [tag |-> "reject", items |-> <<>>]
NoResult == [tag |-> "none", items |-> <<>>]
\* a promise that settles later
AsyncResults == ArrayResults \cup {NullResult, RejectResult}
\* a value returned, an exception thrown, or a promise already settled
SyncResults == ArrayResults \cup {NullResult, ThrowResult, RejectResult}

Min(a, b) == IF a < b THEN a ELSE b
Max(a, b) == IF a > b THEN a ELSE b

(***************************************************************************)
(* Pure helpers.                                                           *)
(***************************************************************************)
RECURSIVE trimStart(_)
trimStart(s) ==
  IF s # <<>> /\ Head(s) = " " THEN trimStart(Tail(s)) ELSE s

RECURSIVE trimEnd(_)
trimEnd(s) ==
  IF s # <<>> /\ s[Len(s)] = " " THEN trimEnd(SubSeq(s, 1, Len(s) - 1)) ELSE s

\* String.prototype.trim, as used on inputElement.value
trim(s) == trimEnd(trimStart(s))

\* mutants of slice: the limit forgotten; the last n items kept (slice(-n))
sliceAll(a, n) == a
sliceFromEnd(a, n) == SubSeq(a, Len(a) - Min(n, Len(a)) + 1, Len(a))

\* Array.prototype.slice(0, n) for n >= 0
slice(a, n) == SubSeq(a, 1, Min(n, Len(a)))

\* options.formatSelectedItem of the demo and the README: (country) => country.name
formatSelectedItem(item) == item.name

(***************************************************************************)
(* What one step did, observable from outside the widget.                  *)
(***************************************************************************)
\* the record of a step that has done nothing yet
NoEvent(type) ==
  [ type      |-> type,      \* the event handled
    key       |-> "",        \* the key of a keydown event
    index     |-> -1,        \* the index of the item entered or clicked
    calls     |-> <<>>,      \* arguments of getSuggestions calls made
    selected  |-> <<>>,      \* arguments of onSelect calls made
    result    |-> NoResult,  \* what the source delivered in this step
    answers   |-> <<>>,      \* the query that result is the answer to
    cancelled |-> <<>>,      \* pending timers removed by clearTimeout
    deselected |-> FALSE,    \* render found an item active
    hid       |-> FALSE,     \* hide found the panel visible
    prevented |-> FALSE,     \* event.preventDefault() was called
    logged    |-> FALSE,     \* console.error was called
    threw     |-> FALSE ]    \* an exception left the handler uncaught

begin(s, type) == [s EXCEPT !.ev = NoEvent(type)]

(***************************************************************************)
(* Methods of the class.                                                   *)
(***************************************************************************)
\* mutant of hide: the active index is kept
hideKeepsActive(s) ==
  [s EXCEPT !.ev.hid = @ \/ s.display = "block",
            !.display = "none",
            !.iconActive = IF s.dropdownIcon = "set" THEN FALSE ELSE @]

hide(s) ==
  [s EXCEPT !.ev.hid = @ \/ s.display = "block",
            !.display = "none",
            !.activeIndex = -1,
            !.iconActive = IF s.dropdownIcon = "set" THEN FALSE ELSE @]

\* mutant of show: the icon is left as it is
showNoIcon(s) == [s EXCEPT !.display = "block"]

show(s) ==
  [s EXCEPT !.display = "block",
            !.iconActive = IF s.dropdownIcon = "set" THEN TRUE ELSE @]

\* mutant of render: the active index is kept
\* The classes of the rendered items are followed where the widget has the
\* field highlighted, the set of the indices of the rendered items that carry
\* options.activeClass (HighlightSpec), and left out elsewhere.
TracksClasses(s) == "highlighted" \in DOMAIN s

withActiveClass(s, indices) ==
  IF TracksClasses(s) THEN [s EXCEPT !.highlighted = indices] ELSE s

renderKeepsActive(s) ==
  withActiveClass([s EXCEPT !.rendered = s.suggestions.items,
                            !.ev.deselected = s.activeIndex >= 0],
                  {})

\* the container's children are replaced by new elements, one for each
\* suggestion, none of which carries the active class
render(s) ==
  withActiveClass([s EXCEPT !.rendered = s.suggestions.items,
                            !.ev.deselected = s.activeIndex >= 0,
                            !.activeIndex = -1],
                  {})

\* mutant of highlightActive: the class is added and never removed
highlightActiveAdds(s) ==
  withActiveClass(s, IF TracksClasses(s)
                     THEN s.highlighted \cup
                            {k \in 0 .. Len(s.rendered) - 1 : k = s.activeIndex}
                     ELSE {})

\* the rendered item of index activeIndex gets the active class, the others
\* lose it
highlightActive(s) ==
  withActiveClass(s, {k \in 0 .. Len(s.rendered) - 1 : k = s.activeIndex})

selectSuggestion(s, suggestion) ==
  hide([s EXCEPT !.inputValue = formatSelectedItem(suggestion),
                 !.ev.selected = Append(@, suggestion)])

(***************************************************************************)
(* The browser's timers.  A pending debounce timer is a record of the      *)
(* query its callback has captured, of the event whose handler set it (by) *)
(* and of whether this.debounceTimer still holds its id (handle):          *)
(* setTimeout returns a fresh id each time, so the field names the timer   *)
(* set last and no other.  The field is never reset to null, so it may     *)
(* name a timer that has already fired; clearTimeout of such an id does    *)
(* nothing.                                                                *)
(***************************************************************************)
\* the pending timers with no id held by this.debounceTimer any more
unhandled(timers) ==
  IF timers = <<>> THEN <<>>
  ELSE [i \in 1 .. Len(timers) |-> [timers[i] EXCEPT !.handle = FALSE]]

\* mutant of clearTimeout: nothing is cleared
clearTimeoutNothing(s) == s

\* window.clearTimeout(this.debounceTimer)
clearTimeout(s) ==
  [s EXCEPT !.timers = SelectSeq(@, LAMBDA t : ~t.handle),
            !.ev.cancelled = @ \o SelectSeq(s.timers, LAMBDA t : t.handle)]

\* mutant of setTimeout: the timer is never set
setTimeoutLost(s, query) == [s EXCEPT !.debounceTimer = "set"]

\* this.debounceTimer = window.setTimeout(<fetch of query>, debounceTime)
setTimeout(s, query) ==
  [s EXCEPT !.timers = Append(unhandled(@),
                              [query |-> query, handle |-> TRUE, by |-> s.ev.type]),
            !.debounceTimer = "set"]

\* console.error('Error fetching suggestions:', error)
logError(s) == [s EXCEPT !.ev.logged = TRUE]

\* an exception leaves the handler uncaught (a TypeError: this.suggestions
\* is null where its length or an element is read)
throwTypeError(s) == [s EXCEPT !.ev.threw = TRUE]

(***************************************************************************)
(* handleInput: the listener of the input and focus events.                *)
(***************************************************************************)
\* mutants of handleInput: the minimum-length check left out; the pending
\* timer not cleared
handleInputNoMinChars(s) ==
  LET value == trim(s.inputValue)
      s1 == IF s.debounceTimer # "null" THEN clearTimeout(s) ELSE s
  IN  IF Len(value) = 0 /\ s.focused
        THEN setTimeout(s1, <<>>)
      ELSE setTimeout(s1, value)

\* mutant of handleInput: an empty value is too short like any other
handleInputNoEmpty(s) ==
  LET value == trim(s.inputValue)
      s1 == IF s.debounceTimer # "null" THEN clearTimeout(s) ELSE s
  IN  IF Len(value) < s.options.minChars THEN hide(s1)
      ELSE setTimeout(s1, value)

\* mutant of handleInput: the promises in flight are given up
handleInputAborts(s) ==
  LET value == trim(s.inputValue)
      s1 == [(IF s.debounceTimer # "null" THEN clearTimeout(s) ELSE s)
               EXCEPT !.fetches = <<>>]
  IN  IF Len(value) = 0 /\ s.focused THEN setTimeout(s1, <<>>)
      ELSE IF Len(value) < s.options.minChars THEN hide(s1)
      ELSE setTimeout(s1, value)

handleInputNoClear(s) ==
  LET value == trim(s.inputValue)
  IN  IF Len(value) = 0 /\ s.focused
        THEN setTimeout(s, <<>>)
      ELSE IF Len(value) < s.options.minChars
        THEN hide(s)
      ELSE setTimeout(s, value)

handleInput(s) ==
  LET value == trim(s.inputValue)
      s1 == IF s.debounceTimer # "null" THEN clearTimeout(s) ELSE s
  IN  IF Len(value) = 0 /\ s.focused
        THEN setTimeout(s1, <<>>)
      ELSE IF Len(value) < s.options.minChars
        THEN hide(s1)
      ELSE setTimeout(s1, value)

(***************************************************************************)
(* The timer callback after its await: res is what the source delivered.   *)
(* autocomplete.ts slices whatever it got, so a null makes slice throw     *)
(* inside the try; autocomplete.js guards the slice with Array.isArray and *)
(* has no else branch.                                                     *)
(***************************************************************************)
\* the common part: truncate, then render and show, or hide
sliceAndShow(s) ==
  LET s1 == [s EXCEPT !.suggestions.items = slice(@, s.options.maxSuggestions)]
  IN  IF Len(s1.suggestions.items) > 0 THEN show(render(s1)) ELSE hide(s1)

\* this.suggestions = await ...: the assignment of what was delivered
assign(s, res) ==
  [s EXCEPT !.suggestions = [isArray |-> res.tag = "array", items |-> res.items]]

\* mutant of fetchedTS: no try/catch around the fetch
fetchedTSNoCatch(s, res) ==
  IF res.tag \in {"throw", "reject", "null"} THEN throwTypeError(s)
  ELSE sliceAndShow(assign(s, res))

fetchedTS(s, res) ==
  IF res.tag \in {"throw", "reject"} THEN hide(logError(s))
  ELSE IF res.tag = "null" THEN hide(logError(assign(s, res)))
  ELSE sliceAndShow(assign(s, res))

fetchedJS(s, res) ==
  IF res.tag \in {"throw", "reject"} THEN hide(logError(s))
  ELSE IF res.tag = "null" THEN assign(s, res)
  ELSE sliceAndShow(assign(s, res))

fetched(s, query, res) ==
  LET s1 == [s EXCEPT !.ev.result = res, !.ev.answers = <<query>>]
  IN  IF s.build = "ts" THEN fetchedTS(s1, res) ELSE fetchedJS(s1, res)

\* the timer callback up to its await: the call of options.getSuggestions
getSuggestions(s, query) == [s EXCEPT !.ev.calls = Append(@, query)]

(***************************************************************************)
(* handleKeyDown: the listener of the keydown event.                       *)
(***************************************************************************)
Keys == {"ArrowDown", "ArrowUp", "Enter", "Escape", "Tab"}

\* mutant of preventDefault: the default is not suppressed
preventDefaultNothing(s) == s

preventDefault(s) == [s EXCEPT !.ev.prevented = TRUE]

\* mutant of handleKeyDown: no visibility guard
handleKeyDownHidden(s, key) ==
  IF key = "ArrowDown" THEN
    LET s1 == preventDefault(s)
    IN  IF ~s.suggestions.isArray THEN throwTypeError(s1)
        ELSE highlightActive([s1 EXCEPT !.activeIndex =
                Min(s.activeIndex + 1, Len(s.suggestions.items) - 1)])
  ELSE IF key = "ArrowUp" THEN
    highlightActive(
      [preventDefault(s) EXCEPT !.activeIndex = Max(s.activeIndex - 1, -1)])
  ELSE IF key = "Enter" THEN
    IF s.activeIndex >= 0
      THEN LET s1 == preventDefault(s)
           IN  IF ~s.suggestions.isArray
                    \/ s.activeIndex + 1 > Len(s.suggestions.items)
                 THEN throwTypeError(s1)
               ELSE selectSuggestion(s1, s.suggestions.items[s.activeIndex + 1])
      ELSE s
  ELSE IF key = "Escape" THEN hide(preventDefault(s))
  ELSE s

handleKeyDown(s, key) ==
  IF s.display = "none" THEN s
  ELSE IF key = "ArrowDown" THEN
    LET s1 == preventDefault(s)
    IN  IF ~s.suggestions.isArray THEN throwTypeError(s1)
        ELSE highlightActive([s1 EXCEPT !.activeIndex =
                Min(s.activeIndex + 1, Len(s.suggestions.items) - 1)])
  ELSE IF key = "ArrowUp" THEN
    highlightActive(
      [preventDefault(s) EXCEPT !.activeIndex = Max(s.activeIndex - 1, -1)])
  ELSE IF key = "Enter" THEN
    IF s.activeIndex >= 0
      THEN LET s1 == preventDefault(s)
           IN  IF ~s.suggestions.isArray
                    \/ s.activeIndex + 1 > Len(s.suggestions.items)
                 THEN throwTypeError(s1)
               ELSE selectSuggestion(s1, s.suggestions.items[s.activeIndex + 1])
      ELSE s
  ELSE IF key = "Escape" THEN hide(preventDefault(s))
  ELSE s

(***************************************************************************)
(* The click listener of the dropdown icon.  inputElement.focus() on a     *)
(* field without focus dispatches the focus event before it returns, so    *)
(* the focus listener (handleInput) runs first.                            *)
(***************************************************************************)
focus(s) ==
  IF s.focused THEN s ELSE handleInput([s EXCEPT !.focused = TRUE])

iconClick(s) ==
  LET s1 == focus(s)
  IN  IF s1.display = "none" THEN handleInput(s1) ELSE hide(s1)

\* sequence q without its i-th element
RemoveAt(q, i) == SubSeq(q, 1, i - 1) \o SubSeq(q, i + 1, Len(q))

\* a promise in flight: the pending answer to getSuggestions(query)
Promise(query) == [query |-> query]

(***************************************************************************)
(* The document.  A node is a record; children maps the elements that can  *)
(* hold the input (the body, a form, the widget's wrapper) to the sequence *)
(* of their child nodes.  The operators are those of the DOM: a node that  *)
(* is inserted somewhere leaves the place it had.                          *)
(***************************************************************************)
El(tag) == [tag |-> tag, n |-> 0]
Sibling(k) == [tag |-> "sibling", n |-> k]

body == El("body")
form == El("form")
inputElement == El("input")
wrapper == El("wrapper")
dropdownIcon == El("icon")
container == El("container")
NoNode == El("null")

Range(q) == {q[i] : i \in 1 .. Len(q)}

IndexOf(q, x) == CHOOSE i \in 1 .. Len(q) : q[i] = x

parentNode(children, node) ==
  IF \E p \in DOMAIN children : node \in Range(children[p])
  THEN CHOOSE p \in DOMAIN children : node \in Range(children[p])
  ELSE NoNode

\* the node taken out of wherever it is
detach(children, node) ==
  [p \in DOMAIN children |-> SelectSeq(children[p], LAMBDA x : x # node)]

appendChild(children, parent, node) ==
  [detach(children, node) EXCEPT ![parent] = Append(@, node)]

insertBefore(children, parent, node, ref) ==
  LET c == detach(children, node)
      i == IndexOf(c[parent], ref)
  IN  [c EXCEPT ![parent] = SubSeq(@, 1, i - 1) \o <<node>> \o SubSeq(@, i, Len(@))]

removeChild(children, parent, node) ==
  [children EXCEPT ![parent] = SelectSeq(@, LAMBDA x : x # node)]

RECURSIVE inDocument(_, _)
inDocument(children, node) ==
  \/ node = body
  \/ /\ parentNode(children, node) # NoNode
     /\ inDocument(children, parentNode(children, node))

\* the elements above a node (the html element is left out)
RECURSIVE ancestors(_, _)
ancestors(children, node) ==
  LET p == parentNode(children, node)
  IN  IF p = NoNode THEN {} ELSE {p} \cup ancestors(children, p)

\* a page whose input has the given siblings before and after it, in the
\* body itself or in a form of the body, and the given inline right padding
Document(host, before, after, padding) ==
  LET row == [i \in 1 .. before |-> Sibling(i)] \o <<inputElement>>
               \o [i \in 1 .. after |-> Sibling(before + i)]
  IN  [ children |->
          [p \in {body, form, wrapper} |->
             IF p = host THEN row
             ELSE IF p = body THEN <<form>>
             ELSE <<>>],
        paddingRight |-> padding ]

\* the page of the full lifecycle
Page == Document(form, 1, 1, "")

\* inline right paddings an input may have before the widget is attached
Paddings == {"", "8px"}

\* the pages a widget may be attached to
Documents ==
  { Document(host, before, after, padding) :
      host \in {body, form}, before \in 0 .. MaxSiblings,
      after \in 0 .. MaxSiblings, padding \in Paddings }

(***************************************************************************)
(* Listeners.  A listener is registered with the function object passed to *)
(* addEventListener; fn.bind(this) makes a new function object at every    *)
(* call, named here by the method and the source line of the bind call     *)
(* (lines of autocomplete.ts; 161 and 364 are the loops over the input's   *)
(* ancestors that only autocomplete.js has); the two arrow functions are   *)
(* named by their lines.                                                   *)
(***************************************************************************)
Bound(method, line) == [method |-> method, line |-> line]

addEventListener(s, target, type, fn) ==
  [s EXCEPT !.listeners = @ \cup {[target |-> target, type |-> type, fn |-> fn]}]

\* removes the listener registered with this very function object, if any
removeEventListener(s, target, type, fn) ==
  [s EXCEPT !.listeners = @ \ {[target |-> target, type |-> type, fn |-> fn]}]

Listening(s, target, type) ==
  \E l \in s.listeners : l.target = target /\ l.type = type

setupEventListeners(s) ==
  LET s1 == addEventListener(s, "input", "input", Bound("handleInput", 180))
      s2 == addEventListener(s1, "input", "focus", Bound("handleInput", 183))
      s3 == addEventListener(s2, "input", "blur", Bound("arrow", 186))
      s4 == IF s3.dropdownIcon = "set"
            THEN addEventListener(s3, "icon", "click", Bound("arrow", 197))
            ELSE s3
      s5 == addEventListener(s4, "input", "keydown", Bound("handleKeyDown", 209))
      s6 == addEventListener(s5, "window", "resize",
                             Bound("handlePositionUpdate", 212))
      s7 == IF s.build = "js"
            THEN [s6 EXCEPT !.listeners = @ \cup
                   { [target |-> p.tag, type |-> "scroll",
                      fn |-> Bound("handlePositionUpdate", 161)] :
                       p \in ancestors(s.dom.children, inputElement) }]
            ELSE s6
  IN  addEventListener(s7, "window", "scroll", Bound("handlePositionUpdate", 213))

setupDropdownIcon(s) ==
  LET c  == s.dom.children
      p  == parentNode(c, inputElement)
      c1 == IF p # NoNode THEN insertBefore(c, p, wrapper, inputElement) ELSE c
      c2 == appendChild(c1, wrapper, inputElement)
      c3 == appendChild(c2, wrapper, dropdownIcon)
  IN  [s EXCEPT !.wrapper = "set",
                !.dropdownIcon = "set",
                !.dom.children = c3,
                !.dom.paddingRight = "30px"]

(***************************************************************************)
(* The state after the constructor.                                        *)
(***************************************************************************)
Options ==
  [ maxSuggestions : MaxSuggestionsChoices,
    minChars : MinCharsChoices,
    showDropdownIcon : {TRUE} ]

\* the fields as the constructor initialises them, before it sets up the
\* icon and the listeners
Fields(doc, build, options) ==
  [ build         |-> build,
    options       |-> options,
    \* "attached" until destroy() has been called, "destroyed" from then on
    phase         |-> "attached",
    \* the document, with the container appended to the body, and the
    \* document as it was before the constructor
    dom           |-> [doc EXCEPT !.children =
                         appendChild(@, body, container)],
    original      |-> doc,
    wrapper       |-> "null",
    dropdownIcon  |-> "null",
    listeners     |-> {},
    \* the input element and document.activeElement === inputElement
    inputValue    |-> <<>>,
    focused       |-> FALSE,
    \* fields of the object
    suggestions   |-> [isArray |-> TRUE, items |-> <<>>],
    activeIndex   |-> -1,
    debounceTimer |-> "null",
    \* the container: style.display and its children
    display       |-> "none",
    rendered      |-> <<>>,
    \* the icon carries 'autocomplete-icon-active'
    iconActive    |-> FALSE,
    \* the browser: debounce timers, blur timers, promises in flight
    timers        |-> <<>>,
    blurTimers    |-> 0,
    fetches       |-> <<>>,
    ev            |-> NoEvent("constructor") ]

construct(doc, build, options) ==
  LET s == Fields(doc, build, options)
  IN  setupEventListeners(
        IF options.showDropdownIcon THEN setupDropdownIcon(s) ELSE s)

Constructed(build, options) == construct(Page, build, options)

\* a document no widget is attached to yet
Unattached(doc) == [phase |-> "unattached", dom |-> doc]

\* mutant of destroy: the input is put back as the last child
destroyAppend(s) ==
  LET c  == s.dom.children
      p  == parentNode(c, wrapper)
      c1 == IF s.wrapper = "set" /\ p # NoNode
            THEN removeChild(appendChild(c, p, inputElement), p, wrapper)
            ELSE c
      c2 == IF parentNode(c1, container) # NoNode
            THEN removeChild(c1, parentNode(c1, container), container)
            ELSE c1
  IN  [s EXCEPT !.phase = "destroyed",
                !.dom.children = c2,
                !.dom.paddingRight = IF s.wrapper = "set" THEN "" ELSE @]

\* teardown
destroy(s) ==
  LET c  == s.dom.children
      p  == parentNode(c, wrapper)
      c1 == IF s.wrapper = "set" /\ p # NoNode
            THEN removeChild(insertBefore(c, p, inputElement, wrapper), p, wrapper)
            ELSE c
      c2 == IF parentNode(c1, container) # NoNode
            THEN removeChild(c1, parentNode(c1, container), container)
            ELSE c1
      s1 == [s EXCEPT !.phase = "destroyed",
                      !.dom.children = c2,
                      !.dom.paddingRight = IF s.wrapper = "set" THEN "" ELSE @]
      s2 == removeEventListener(s1, "input", "input", Bound("handleInput", 415))
      s3 == removeEventListener(s2, "input", "focus", Bound("handleInput", 416))
      s4 == removeEventListener(s3, "input", "keydown", Bound("handleKeyDown", 417))
      s5 == IF s.build = "js"
            THEN removeEventListener(
                   [s4 EXCEPT !.listeners = @ \
                     { [target |-> q.tag, type |-> "scroll",
                        fn |-> Bound("handlePositionUpdate", 364)] :
                         q \in ancestors(c2, inputElement) }],
                   "window", "scroll", Bound("handlePositionUpdate", 369))
            ELSE s4
  IN  removeEventListener(s5, "window", "resize", Bound("handlePositionUpdate", 418))

Init ==
  \E build \in Builds, options \in Options : w = Constructed(build, options)

(***************************************************************************)
(* The events.                                                             *)
(***************************************************************************)
\* the field's value changes and the input event is dispatched: the user
\* types or pastes, or the browser fills the field in (which needs no focus)
Input(v) ==
  /\ Listening(w, "input", "input")
  /\ v # w.inputValue
  /\ w' = handleInput([begin(w, "input") EXCEPT !.inputValue = v])

\* the user moves the focus into the field: the focus event
Focus ==
  /\ Listening(w, "input", "focus")
  /\ ~w.focused
  /\ w' = handleInput([begin(w, "focus") EXCEPT !.focused = TRUE])

\* the focus leaves the field: the blur listener sets its 150 ms timer
Blur ==
  /\ Listening(w, "input", "blur")
  /\ w.focused
  /\ w.blurTimers < MaxBlurTimers
  /\ w' = [begin(w, "blur") EXCEPT !.focused = FALSE, !.blurTimers = @ + 1]

\* a timer of the blur listener fires
BlurTimerFire ==
  /\ w.blurTimers > 0
  /\ w' = hide([begin(w, "blurTimer") EXCEPT !.blurTimers = @ - 1])

\* a key is pressed in the field
KeyDown(key) ==
  /\ Listening(w, "input", "keydown")
  /\ w.focused
  /\ w' = handleKeyDown([begin(w, "keydown") EXCEPT !.ev.key = key], key)

\* the pointer enters the rendered item of index k
MouseEnter(k) ==
  /\ inDocument(w.dom.children, container)
  /\ w.display = "block"
  /\ k \in 0 .. Len(w.rendered) - 1
  /\ w' = highlightActive(
            [begin(w, "mouseenter") EXCEPT !.ev.index = k, !.activeIndex = k])

\* the rendered item of index k is clicked
Click(k) ==
  /\ inDocument(w.dom.children, container)
  /\ w.display = "block"
  /\ k \in 0 .. Len(w.rendered) - 1
  /\ w' = selectSuggestion([begin(w, "click") EXCEPT !.ev.index = k],
                          w.rendered[k + 1])

\* the dropdown icon is clicked
IconClick ==
  /\ Listening(w, "icon", "click")
  /\ inDocument(w.dom.children, dropdownIcon)
  /\ w' = iconClick(begin(w, "iconClick"))

\* the oldest debounce timer fires and the source settles at once
TimerFire(res) ==
  /\ w.timers # <<>>
  /\ w' = fetched(
            getSuggestions([begin(w, "timer") EXCEPT
                              !.timers = Tail(@)],
                           Head(w.timers).query),
            Head(w.timers).query, res)

\* the oldest debounce timer fires and the source returns a pending promise
TimerFirePending ==
  /\ w.timers # <<>>
  /\ Len(w.fetches) < MaxInFlight
  /\ w' = [getSuggestions([begin(w, "timer") EXCEPT !.timers = Tail(@)],
                          Head(w.timers).query)
             EXCEPT !.fetches = Append(@, Promise(Head(w.timers).query))]

\* the i-th promise in flight settles
FetchComplete(i, res) ==
  /\ i \in 1 .. Len(w.fetches)
  /\ w' = fetched([begin(w, "fetched") EXCEPT
                      !.fetches = RemoveAt(@, i)],
                  w.fetches[i].query, res)

\* the page calls destroy()
Destroy ==
  /\ w.phase # "unattached"
  /\ w' = destroy(begin(w, "destroy"))

\* the steps of a widget in use
Use ==
  \/ \E v \in Values : Input(v)
  \/ Focus
  \/ Blur
  \/ BlurTimerFire
  \/ \E key \in Keys : KeyDown(key)
  \/ \E k \in 0 .. MaxResult : MouseEnter(k)
  \/ \E k \in 0 .. MaxResult : Click(k)
  \/ IconClick
  \/ \E res \in SyncResults : TimerFire(res)
  \/ TimerFirePending
  \/ \E i \in 1 .. MaxInFlight, res \in AsyncResults : FetchComplete(i, res)

Next == Use \/ Destroy

Spec == Init /\ [][Next]_vars

(***************************************************************************)
(* Attachment and teardown alone, over every page: the constructor is      *)
(* applied to a page no widget is attached to, then destroy().             *)
(***************************************************************************)
AttachOptions ==
  [ maxSuggestions : MaxSuggestionsChoices,
    minChars : MinCharsChoices,
    showDropdownIcon : BOOLEAN ]

AttachInit == \E doc \in Documents : w = Unattached(doc)

\* new Autocomplete(options)
Construct(build, options) ==
  /\ w.phase = "unattached"
  /\ w' = construct(w.dom, build, options)

AttachNext ==
  \/ \E build \in Builds, options \in AttachOptions : Construct(build, options)
  \/ Destroy

AttachSpec == AttachInit /\ [][AttachNext]_vars

(***************************************************************************)
(* The widget in use, up to its teardown, with the browser's and the       *)
(* source's progress: a timer that is due fires, and a promise of the      *)
(* source settles.                                                         *)
(***************************************************************************)
TimerStep == (\E res \in SyncResults : TimerFire(res)) \/ TimerFirePending

FetchStep == \E i \in 1 .. MaxInFlight, res \in AsyncResults : FetchComplete(i, res)

\* weak fairness of TimerStep and of FetchStep, written out: such a step is
\* enabled exactly when a timer is pending (a promise is in flight), and is
\* exactly a step whose event is "timer" ("fetched")
TimerDue == w.timers # <<>>
InFlight == w.fetches # <<>>

TimersFire == <>[]TimerDue => []<><<w'.ev.type = "timer">>_vars
PromisesSettle == <>[]InFlight => []<><<w'.ev.type = "fetched">>_vars

LiveSpec ==
  /\ Init /\ [][Use]_vars
  /\ TimersFire
  /\ PromisesSettle
  /\ WF_vars(BlurTimerFire)

\* the same, with the fairness conditions in their usual form
LiveSpecWF ==
  /\ Init /\ [][Use]_vars
  /\ WF_vars(TimerStep)
  /\ WF_vars(FetchStep)
  /\ WF_vars(BlurTimerFire)

\* the two forms agree
EnabledAsWritten ==
  /\ TimerDue <=> ENABLED <<TimerStep>>_vars
  /\ InFlight <=> ENABLED <<FetchStep>>_vars

StepsAsWritten ==
  [][ /\ w'.ev.type = "timer" <=> TimerStep
      /\ w'.ev.type = "fetched" <=> FetchStep ]_vars

(***************************************************************************)
(* The widget in use with the classes of its rendered items followed: a    *)
(* new widget has rendered no item.                                        *)
(***************************************************************************)
HighlightInit ==
  \E build \in Builds, options \in Options :
    w = Constructed(build, options) @@ [highlighted |-> {}]

HighlightSpec == HighlightInit /\ [][Use]_vars

(***************************************************************************)
(* Positioning.  The panel's place is computed from the input's bounding   *)
(* rectangle (viewport coordinates), the viewport's height and the panel's *)
(* height.  autocomplete.ts positions the container absolutely in the body *)
(* and so adds the window's scroll offsets; autocomplete.js positions it   *)
(* fixed and uses the viewport coordinates as they are.  A length is       *)
(* written to the style as a number of px.                                 *)
(***************************************************************************)
\* the largest coordinate and the largest scroll offset of the pages modelled
MaxCoord == 2
MaxScroll == 1

px(n) == [px |-> n]

Rects ==
  { [top |-> top, bottom |-> top + height, left |-> left, width |-> width] :
      top \in -1 .. MaxCoord, height \in 0 .. 1,
      left \in 0 .. 1, width \in 1 .. 2 }

\* the page as show() finds it, and the container as the constructor made it
Layout(build, rect, innerHeight, offsetHeight, scrollX, scrollY) ==
  [ build        |-> build,
    phase        |-> "hidden",
    inputRect    |-> rect,
    innerHeight  |-> innerHeight,
    offsetHeight |-> offsetHeight,
    scrollX      |-> scrollX,
    scrollY      |-> scrollY,
    position     |-> IF build = "ts" THEN "absolute" ELSE "fixed",
    top          |-> "",
    left         |-> "",
    width        |-> "",
    classList    |-> {} ]

\* mutant of updateContainerPosition: the scroll offsets are left out
updateContainerPositionNoScroll(s) ==
  LET inputRect       == s.inputRect
      containerHeight == s.offsetHeight
      spaceBelow      == s.innerHeight - inputRect.bottom
      spaceAbove      == inputRect.top
      s1 == [s EXCEPT !.width = px(inputRect.width), !.left = px(inputRect.left)]
  IN  IF spaceBelow < containerHeight /\ spaceAbove > spaceBelow
        THEN [s1 EXCEPT !.top = px(inputRect.top - containerHeight),
                        !.classList = (@ \cup {"autocomplete-above"})
                                        \ {"autocomplete-below"}]
      ELSE [s1 EXCEPT !.top = px(inputRect.bottom),
                      !.classList = (@ \cup {"autocomplete-below"})
                                      \ {"autocomplete-above"}]

updateContainerPosition(s) ==
  LET inputRect       == s.inputRect
      containerHeight == s.offsetHeight
      spaceBelow      == s.innerHeight - inputRect.bottom
      spaceAbove      == inputRect.top
      scrollX         == IF s.build = "ts" THEN s.scrollX ELSE 0
      scrollY         == IF s.build = "ts" THEN s.scrollY ELSE 0
      s1 == [s EXCEPT !.width = px(inputRect.width),
                      !.position = IF s.build = "js" THEN "fixed" ELSE @,
                      !.left = px(inputRect.left + scrollX)]
  IN  IF spaceBelow < containerHeight /\ spaceAbove > spaceBelow
        THEN [s1 EXCEPT !.top = px(inputRect.top + scrollY - containerHeight),
                        !.classList = (@ \cup {"autocomplete-above"})
                                        \ {"autocomplete-below"}]
      ELSE [s1 EXCEPT !.top = px(inputRect.bottom + scrollY),
                      !.classList = (@ \cup {"autocomplete-below"})
                                      \ {"autocomplete-above"}]

handlePositionUpdate(s) ==
  IF s.phase # "hidden" THEN updateContainerPosition(s) ELSE s

PositionInit ==
  \E build \in Builds, rect \in Rects,
     innerHeight \in 0 .. MaxCoord + 1, offsetHeight \in 0 .. MaxCoord,
     scrollX \in 0 .. MaxScroll, scrollY \in 0 .. MaxScroll :
    w = Layout(build, rect, innerHeight, offsetHeight, scrollX, scrollY)

\* show(): the container is displayed, then positioned
Show ==
  /\ w.phase = "hidden"
  /\ w' = updateContainerPosition([w EXCEPT !.phase = "shown"])

\* the window is scrolled to offset y: the input's rectangle moves the other
\* way, and the scroll listener runs
Scroll(y) ==
  /\ w.phase = "shown"
  /\ y # w.scrollY
  /\ w' = handlePositionUpdate(
            [w EXCEPT !.scrollY = y,
                      !.inputRect.top = @ - (y - w.scrollY),
                      !.inputRect.bottom = @ - (y - w.scrollY)])

\* the window is resized to height innerHeight: the resize listener runs
Resize(innerHeight) ==
  /\ w.phase = "shown"
  /\ innerHeight # w.innerHeight
  /\ w' = handlePositionUpdate([w EXCEPT !.innerHeight = innerHeight])

PositionNext ==
  \/ Show
  \/ \E y \in 0 .. MaxScroll : Scroll(y)
  \/ \E innerHeight \in 0 .. MaxCoord + 1 : Resize(innerHeight)

PositionSpec == PositionInit /\ [][PositionNext]_vars

\* where the container's edges are in the viewport: an absolutely positioned
\* child of the body scrolls with the page, a fixed one does not
viewportTop(s) ==
  IF s.position = "fixed" THEN s.top.px ELSE s.top.px - s.scrollY

viewportLeft(s) ==
  IF s.position = "fixed" THEN s.left.px ELSE s.left.px - s.scrollX

(***************************************************************************)
(* The two builds side by side.  w holds a widget of autocomplete.ts and a *)
(* widget of autocomplete.js, constructed with the same options on two     *)
(* copies of the page; each step is one event delivered to both, the       *)
(* source answering both with the same result.  An event is delivered      *)
(* where both pages can produce it.                                        *)
(***************************************************************************)
PairInit ==
  \E options \in Options :
    w = [ts |-> Constructed("ts", options), js |-> Constructed("js", options)]

\* both pages can produce the event that a page can produce where
\* possible(s) holds
OnBoth(possible(_)) == possible(w.ts) /\ possible(w.js)

\* the two widgets after the handler that takes a widget s to handler(s)
both(handler(_)) == [ts |-> handler(w.ts), js |-> handler(w.js)]

PairInput(v) ==
  /\ OnBoth(LAMBDA s : Listening(s, "input", "input") /\ v # s.inputValue)
  /\ w' = both(LAMBDA s : handleInput([begin(s, "input") EXCEPT !.inputValue = v]))

PairFocus ==
  /\ OnBoth(LAMBDA s : Listening(s, "input", "focus") /\ ~s.focused)
  /\ w' = both(LAMBDA s : handleInput([begin(s, "focus") EXCEPT !.focused = TRUE]))

PairBlur ==
  /\ OnBoth(LAMBDA s : /\ Listening(s, "input", "blur")
                  /\ s.focused
                  /\ s.blurTimers < MaxBlurTimers)
  /\ w' = both(LAMBDA s : [begin(s, "blur") EXCEPT !.focused = FALSE,
                                           !.blurTimers = @ + 1])

PairBlurTimerFire ==
  /\ OnBoth(LAMBDA s : s.blurTimers > 0)
  /\ w' = both(LAMBDA s : hide([begin(s, "blurTimer") EXCEPT !.blurTimers = @ - 1]))

PairKeyDown(key) ==
  /\ OnBoth(LAMBDA s : Listening(s, "input", "keydown") /\ s.focused)
  /\ w' = both(LAMBDA s : handleKeyDown([begin(s, "keydown") EXCEPT !.ev.key = key],
                                key))

PairMouseEnter(k) ==
  /\ OnBoth(LAMBDA s : /\ inDocument(s.dom.children, container)
                  /\ s.display = "block"
                  /\ k \in 0 .. Len(s.rendered) - 1)
  /\ w' = both(LAMBDA s : highlightActive([begin(s, "mouseenter") EXCEPT
                                     !.ev.index = k, !.activeIndex = k]))

PairClick(k) ==
  /\ OnBoth(LAMBDA s : /\ inDocument(s.dom.children, container)
                  /\ s.display = "block"
                  /\ k \in 0 .. Len(s.rendered) - 1)
  /\ w' = both(LAMBDA s : selectSuggestion([begin(s, "click") EXCEPT !.ev.index = k],
                                   s.rendered[k + 1]))

PairIconClick ==
  /\ OnBoth(LAMBDA s : /\ Listening(s, "icon", "click")
                  /\ inDocument(s.dom.children, dropdownIcon))
  /\ w' = both(LAMBDA s : iconClick(begin(s, "iconClick")))

PairTimerFire(res) ==
  /\ OnBoth(LAMBDA s : s.timers # <<>>)
  /\ w' = both(LAMBDA s : fetched(getSuggestions([begin(s, "timer") EXCEPT
                                            !.timers = Tail(@)],
                                         Head(s.timers).query),
                          Head(s.timers).query, res))

PairTimerFirePending ==
  /\ OnBoth(LAMBDA s : s.timers # <<>> /\ Len(s.fetches) < MaxInFlight)
  /\ w' = both(LAMBDA s : [getSuggestions([begin(s, "timer") EXCEPT
                                     !.timers = Tail(@)],
                                  Head(s.timers).query)
                     EXCEPT !.fetches =
                              Append(@, Promise(Head(s.timers).query))])

PairFetchComplete(i, res) ==
  /\ OnBoth(LAMBDA s : i \in 1 .. Len(s.fetches))
  /\ w' = both(LAMBDA s : fetched([begin(s, "fetched") EXCEPT
                             !.fetches = RemoveAt(@, i)],
                          s.fetches[i].query, res))

PairNext ==
  \/ \E v \in Values : PairInput(v)
  \/ PairFocus
  \/ PairBlur
  \/ PairBlurTimerFire
  \/ \E key \in Keys : PairKeyDown(key)
  \/ \E k \in 0 .. MaxResult : PairMouseEnter(k)
  \/ \E k \in 0 .. MaxResult : PairClick(k)
  \/ PairIconClick
  \/ \E res \in SyncResults : PairTimerFire(res)
  \/ PairTimerFirePending
  \/ \E i \in 1 .. MaxInFlight, res \in AsyncResults : PairFetchComplete(i, res)

PairSpec == PairInit /\ [][PairNext]_vars

\* what the suggestion lifecycle of a widget shows at a step: the panel's
\* visibility, the stored list, the active index, whether a debounce timer
\* is pending, and the calls of getSuggestions and onSelect in the step
Lifecycle(s) ==
  [ display      |-> s.display,
    suggestions  |-> s.suggestions,
    activeIndex  |-> s.activeIndex,
    timerPending |-> s.timers # <<>>,
    calls        |-> s.ev.calls,
    selected     |-> s.ev.selected ]

(***************************************************************************)
(* Notions the properties are stated with.                                 *)
(***************************************************************************)
Visible == w.display = "block"

\* the items the user sees
Shown == IF Visible THEN w.rendered ELSE <<>>

\* the first k elements of sequence r, in r's order
Prefix(r, k) == [i \in 1 .. (IF k < Len(r) THEN k ELSE Len(r)) |-> r[i]]

\* the trimmed value of the field, and whether it is too short for a fetch
Trimmed == trim(w.inputValue)
EmptyWithFocus == Len(Trimmed) = 0 /\ w.focused
BelowMinChars == Len(Trimmed) < w.options.minChars

(***************************************************************************)
(* C1.  In every reachable state the active index is an integer i with     *)
(* -1 <= i <= (length of the current suggestion list) - 1.  A stored value *)
(* that is no list (null) has no element an index could name.              *)
(***************************************************************************)
C1_ActiveIndexInRange ==
  /\ w.activeIndex \in Int
  /\ -1 <= w.activeIndex
  /\ w.activeIndex <= Len(w.suggestions.items) - 1

\* on autocomplete.ts alone the index stays in range
C1_OnTS == w.build = "ts" => C1_ActiveIndexInRange

(***************************************************************************)
(* C2.  In every reachable state the stored suggestion list, and the       *)
(* number of rendered items, has at most maxSuggestions elements.          *)
(***************************************************************************)
C2_AtMostMaxSuggestions ==
  /\ Len(w.suggestions.items) <= w.options.maxSuggestions
  /\ Len(w.rendered) <= w.options.maxSuggestions

\* the source delivered more than the maximum and the maximum is shown
C2_Witness ==
  /\ w.ev.result.tag = "array"
  /\ Len(w.ev.result.items) > w.options.maxSuggestions
  /\ Visible
  /\ Len(w.rendered) = w.options.maxSuggestions

(***************************************************************************)
(* C3.  When a fetch completes with a sequence R of length n, the list     *)
(* stored, and the list the user sees, is exactly the first                *)
(* min(n, maxSuggestions) items of R in R's order.                         *)
(***************************************************************************)
C3_TruncationKeepsOrder ==
  w.ev.result.tag = "array" =>
    /\ w.suggestions.isArray
    /\ w.suggestions.items = Prefix(w.ev.result.items, w.options.maxSuggestions)
    /\ Shown = Prefix(w.ev.result.items, w.options.maxSuggestions)

\* three items delivered, the first two differ, and those two are shown in order
C3_Witness ==
  /\ w.ev.result.tag = "array"
  /\ Len(w.ev.result.items) = 3
  /\ w.ev.result.items[1] # w.ev.result.items[2]
  /\ w.options.maxSuggestions = 2
  /\ Visible
  /\ w.rendered = <<w.ev.result.items[1], w.ev.result.items[2]>>

(***************************************************************************)
(* C4, as stated.  While the trimmed value is shorter than minChars the    *)
(* panel is not visible, and an input or focus event with such a value     *)
(* leaves no fetch scheduled and calls the source not at all.              *)
(***************************************************************************)
C4_Original ==
  BelowMinChars =>
    /\ ~Visible
    /\ w.ev.type \in {"input", "focus"} => w.timers = <<>> /\ w.ev.calls = <<>>

(***************************************************************************)
(* C4, amended.  An input or focus event whose trimmed value is shorter    *)
(* than minChars, other than an empty value on a field that has the focus, *)
(* leaves the panel hidden with no item active, no debounce timer pending  *)
(* (the one that was pending is cancelled) and the source not called.      *)
(***************************************************************************)
C4_BelowMinCharsHides ==
  (w.ev.type \in {"input", "focus"} /\ BelowMinChars /\ ~EmptyWithFocus) =>
    /\ ~Visible
    /\ w.activeIndex = -1
    /\ w.timers = <<>>
    /\ w.ev.calls = <<>>

\* a non-empty value below the minimum arrives while a fetch is scheduled
C4_Witness ==
  /\ w.ev.type = "input"
  /\ BelowMinChars
  /\ Len(Trimmed) > 0
  /\ w.ev.cancelled # <<>>
  /\ ~Visible

(***************************************************************************)
(* C5, as stated.  An input event that the user types while the debounce   *)
(* timer of the previous input event is pending leaves exactly one fetch   *)
(* to come, for its own value.                                             *)
(***************************************************************************)
InBurst ==
  /\ w.ev.type = "input"
  /\ w.focused
  /\ w.ev.cancelled # <<>>
  /\ \A i \in 1 .. Len(w.ev.cancelled) : w.ev.cancelled[i].by = "input"

C5_Original ==
  InBurst => Len(w.timers) = 1 /\ w.timers[1].query = Trimmed

(***************************************************************************)
(* C5, amended.  After an input event the only debounce timer pending is   *)
(* the one for that event's trimmed value, and there is none when that     *)
(* value is below minChars (and not empty with focus): every timer of an   *)
(* earlier event of the burst is cancelled.  A timer that fires calls the  *)
(* source exactly once, with the value it was set for, and leaves no timer *)
(* pending.  So a burst ends in at most one call, for the final value.     *)
(***************************************************************************)
FetchWanted == EmptyWithFocus \/ ~BelowMinChars

C5_AfterInput ==
  w.ev.type = "input" =>
    /\ w.ev.calls = <<>>
    /\ w.timers = IF FetchWanted
                    THEN <<[query |-> Trimmed, handle |-> TRUE, by |-> "input"]>>
                    ELSE <<>>

C5_TimerCallsOnce ==
  w'.ev.type = "timer" =>
    /\ Len(w.timers) = 1
    /\ w'.ev.calls = <<w.timers[1].query>>
    /\ w'.timers = <<>>

C5_OneFetchForFinalValue == [](C5_AfterInput) /\ [][C5_TimerCallsOnce]_vars

\* the second input event of a burst, its value other than the first one's
C5_Witness ==
  /\ InBurst
  /\ w.ev.cancelled[1].query # Trimmed
  /\ Len(w.timers) = 1
  /\ w.timers[1].query = Trimmed

(***************************************************************************)
(* The step just taken, for the properties of single events.               *)
(***************************************************************************)
\* a rendered item is clicked
Clicked == w'.ev.type = "click"

\* the key is pressed while the panel is visible
Pressed(key) ==
  w'.ev.type = "keydown" /\ w'.ev.key = key /\ w.display = "block"

\* Enter is pressed while the panel is visible and an item is active
EnterOnActive == Pressed("Enter") /\ w.activeIndex >= 0

\* the item the user has chosen: the one clicked, or the one highlighted
Chosen ==
  IF Clicked THEN w.rendered[w'.ev.index + 1] ELSE w.rendered[w.activeIndex + 1]

(***************************************************************************)
(* C6.  A click on a rendered item, or Enter while an item is active, sets *)
(* the field's value to the formatted string of that item (its name),      *)
(* passes that very item to onSelect, and leaves the panel hidden with     *)
(* active index -1.                                                        *)
(***************************************************************************)
C6_Step ==
  (Clicked \/ EnterOnActive) =>
    /\ w'.inputValue = Chosen.name
    /\ w'.ev.selected = <<Chosen>>
    /\ w'.display = "none"
    /\ w'.activeIndex = -1

C6_OnTS == [][w.build = "ts" => C6_Step]_vars

(***************************************************************************)
(* C7.  onSelect is called exactly once by a click on a rendered item and  *)
(* by Enter while the panel is visible and an item is active, and not at   *)
(* all by any other step.                                                  *)
(***************************************************************************)
C7_Step ==
  Len(w'.ev.selected) = IF Clicked \/ EnterOnActive THEN 1 ELSE 0

C7_OnTS == [][w.build = "ts" => C7_Step]_vars

(***************************************************************************)
(* C8.  While the panel is visible with N suggestions and active index i,  *)
(* ArrowDown sets the index to min(i + 1, N - 1) and ArrowUp sets it to    *)
(* max(i - 1, -1).                                                         *)
(***************************************************************************)
C8_Step ==
  LET N == Len(w.rendered)
      i == w.activeIndex
  IN  /\ Pressed("ArrowDown") =>
           w'.activeIndex = (IF i + 1 < N - 1 THEN i + 1 ELSE N - 1)
      /\ Pressed("ArrowUp") =>
           w'.activeIndex = (IF i - 1 > -1 THEN i - 1 ELSE -1)

C8_OnTS == [][w.build = "ts" => C8_Step]_vars

(***************************************************************************)
(* C9.  A fault of the source, thrown or delivered as a rejected promise,  *)
(* is caught: the step that receives it hides the panel, lets no exception *)
(* out, logs the fault, and changes nothing else of the widget or of the   *)
(* field, so later events are handled as before.                           *)
(***************************************************************************)
Faults == {"throw", "reject"}

C9_AfterFault ==
  w.ev.result.tag \in Faults =>
    /\ ~Visible
    /\ w.activeIndex = -1
    /\ ~w.ev.threw
    /\ w.ev.logged

C9_FaultStep ==
  w'.ev.result.tag \in Faults =>
    /\ w'.suggestions = w.suggestions
    /\ w'.rendered = w.rendered
    /\ w'.inputValue = w.inputValue
    /\ w'.focused = w.focused
    /\ w'.debounceTimer = w.debounceTimer
    /\ w'.blurTimers = w.blurTimers

C9_FaultIsCaught == [](C9_AfterFault) /\ [][C9_FaultStep]_vars

\* a promise is rejected after the panel has shown items
C9_Witness ==
  /\ w.ev.type = "fetched"
  /\ w.ev.result.tag = "reject"
  /\ w.rendered # <<>>
  /\ ~Visible
  /\ ~w.ev.threw

(***************************************************************************)
(* C10.  After a fetch that completes with a value that is no sequence     *)
(* (null) no suggestions are shown, the stored suggestion list is still a  *)
(* sequence, and no exception leaves the widget.                           *)
(***************************************************************************)
C10_NullIsNoSuggestions ==
  w.ev.result.tag = "null" =>
    /\ ~Visible
    /\ w.suggestions.isArray
    /\ ~w.ev.threw

\* autocomplete.ts at least hides the panel
C10_TSHides == (w.build = "ts" /\ w.ev.result.tag = "null") => ~Visible

\* autocomplete.js hides the panel as well: violated
C10_JSHides == (w.build = "js" /\ w.ev.result.tag = "null") => ~Visible

(***************************************************************************)
(* Teardown.                                                               *)
(***************************************************************************)
Destroyed == w.phase = "destroyed"

\* the fields of the widget and what it shows
WidgetState(s) ==
  <<s.suggestions, s.activeIndex, s.debounceTimer, s.display, s.rendered,
    s.iconActive>>

\* events of the input element
InputEvents == {"input", "focus", "blur", "keydown"}

(***************************************************************************)
(* C11.  After destroy() an input, focus, blur or keydown event changes no *)
(* state of the widget, schedules no timer and calls the source not at     *)
(* all: no listener of the widget is left.                                 *)
(***************************************************************************)
C11_Step ==
  (Destroyed /\ w'.ev.type \in InputEvents) =>
    /\ WidgetState(w') = WidgetState(w)
    /\ w'.timers = w.timers
    /\ w'.blurTimers = w.blurTimers
    /\ w'.ev.calls = <<>>

C11_NoListenerActsAfterDestroy == [][C11_Step]_vars

\* the registrations themselves: none is left after destroy(); violated
C11_NoListenerLeft == Destroyed => w.listeners = {}

(***************************************************************************)
(* C12.  After destroy() the input has the parent and the place among its  *)
(* siblings it had before the constructor ran, with or without the icon;   *)
(* every element of the page holds the children it held before; wrapper,   *)
(* icon and panel are not in the document.                                 *)
(***************************************************************************)
C12_RoundTrip ==
  Destroyed =>
    LET now == w.dom.children
        was == w.original.children
    IN  /\ parentNode(now, inputElement) = parentNode(was, inputElement)
        /\ IndexOf(now[parentNode(now, inputElement)], inputElement)
             = IndexOf(was[parentNode(was, inputElement)], inputElement)
        /\ \A p \in {body, form} : now[p] = was[p]
        /\ ~inDocument(now, wrapper)
        /\ ~inDocument(now, dropdownIcon)
        /\ ~inDocument(now, container)

\* torn down with the icon, the input between siblings in the body itself
C12_Witness ==
  /\ Destroyed
  /\ w.options.showDropdownIcon
  /\ w.original.children[body] = <<Sibling(1), inputElement, Sibling(2)>>
  /\ w.dom.children[body] = w.original.children[body]
  /\ w.dom.children[wrapper] = <<dropdownIcon>>

(***************************************************************************)
(* C13.  When the icon was injected, the input has after destroy() the     *)
(* inline right padding it had before the constructor ran.                 *)
(***************************************************************************)
C13_PaddingRestored ==
  (Destroyed /\ w.wrapper = "set") =>
    w.dom.paddingRight = w.original.paddingRight

\* without the icon the padding is never touched
C13_NoIconKeepsPadding ==
  (w.phase # "unattached" /\ w.wrapper = "null") =>
    w.dom.paddingRight = w.original.paddingRight

(***************************************************************************)
(* The debounced fetch.                                                    *)
(***************************************************************************)
\* the queries a field value can give that are long enough to be fetched
Queries ==
  {trim(v) : v \in {x \in Values : \E m \in MinCharsChoices : Len(trim(x)) >= m}}

\* events the user or the page causes (timers and promises are not)
UserEvents ==
  {"input", "focus", "blur", "keydown", "mouseenter", "click", "iconClick",
   "destroy"}

\* an input event has just left the field with trimmed value v
AfterInput(v) == w.ev.type = "input" /\ Trimmed = v

\* something has happened since that input event
Disturbed(v) ==
  \/ w.ev.type \in UserEvents \ {"input"}
  \/ w.ev.type = "input" /\ Trimmed # v

\* the source has just delivered its answer to query v; if the answer is an
\* array, the panel shows its first maxSuggestions items, and is hidden if
\* there is none
Answered(v) ==
  /\ w.ev.answers = <<v>>
  /\ w.ev.result.tag = "array" =>
       /\ Shown = Prefix(w.ev.result.items, w.options.maxSuggestions)
       /\ Visible <=> w.ev.result.items # <<>>

(***************************************************************************)
(* C14.  After an input event whose trimmed value v has at least minChars  *)
(* characters, unless another user event follows, the source's answer to   *)
(* query v eventually arrives and the panel then shows its truncation, or  *)
(* is hidden if the answer is empty; the step in which a timer fires calls *)
(* the source exactly once, with the query of that timer, and no other     *)
(* step of timers and promises calls it.                                   *)
(***************************************************************************)
C14_CallStep ==
  /\ w'.ev.type = "timer" => w'.ev.calls = <<Head(w.timers).query>>
  /\ w'.ev.type \in {"fetched", "blurTimer"} => w'.ev.calls = <<>>

C14_InputIsAnswered ==
  /\ \A v \in Queries :
       (AfterInput(v) /\ Len(v) >= w.options.minChars)
         ~> (Answered(v) \/ Disturbed(v))
  /\ [][C14_CallStep]_vars

\* the answer to "ab" has more items than the panel may show
C14_Witness ==
  /\ w.ev.type = "fetched"
  /\ w.ev.answers = <<Trimmed>>
  /\ Trimmed = <<"a", "b">>
  /\ Len(w.ev.result.items) > w.options.maxSuggestions
  /\ Visible
  /\ Len(w.rendered) = w.options.maxSuggestions

(***************************************************************************)
(* C15.  Every call of the source is made with the trimmed value the field *)
(* holds at the moment of the call.                                        *)
(***************************************************************************)
C15_FetchIsForCurrentValue ==
  \A i \in 1 .. Len(w.ev.calls) : w.ev.calls[i] = Trimmed

(***************************************************************************)
(* C16.  At most one debounce timer is pending in any state; a step with   *)
(* an input or focus event (the focus event may be the one an icon click   *)
(* causes by focusing the field) cancels every timer that was pending      *)
(* before it, and a timer that fires is the one set last.                  *)
(***************************************************************************)
InputOrFocusEvent ==
  \/ w'.ev.type \in {"input", "focus"}
  \/ w'.ev.type = "iconClick" /\ ~w.focused

C16_Step ==
  /\ InputOrFocusEvent =>
       /\ Len(w'.ev.cancelled) >= Len(w.timers)
       /\ \A i \in 1 .. Len(w.timers) : w'.ev.cancelled[i] = w.timers[i]
  /\ w'.ev.type = "timer" =>
       /\ w.timers = <<Head(w.timers)>>
       /\ Head(w.timers).handle

C16_OneTimerPending ==
  /\ [](Len(w.timers) <= 1)
  /\ [][C16_Step]_vars

\* a focus event has cancelled the timer of an input event and set its own
C16_Witness ==
  /\ w.ev.type = "focus"
  /\ Len(w.ev.cancelled) = 1
  /\ w.ev.cancelled[1].by = "input"
  /\ Len(w.timers) = 1
  /\ w.timers[1].by = "focus"

(***************************************************************************)
(* C17.  A promise in flight is never given up: it stays in flight, in its *)
(* place, until the step in which it settles, and that step renders the    *)
(* items it delivers whatever the field holds and whatever the panel       *)
(* shows by then.  So the race happens: the witness is a state in which a  *)
(* later call has been answered and the panel shows its items while the    *)
(* promise of an earlier call for another query is still in flight; the    *)
(* items that promise delivers next replace them.                          *)
(***************************************************************************)
QueriesInFlight(s) == [i \in 1 .. Len(s.fetches) |-> s.fetches[i].query]

C17_Step ==
  /\ w'.ev.type # "fetched" =>
       /\ Len(w'.fetches) >= Len(w.fetches)
       /\ SubSeq(QueriesInFlight(w'), 1, Len(w.fetches)) = QueriesInFlight(w)
  /\ w'.ev.type = "fetched" =>
       /\ \E i \in 1 .. Len(w.fetches) :
            /\ w'.ev.answers = <<w.fetches[i].query>>
            /\ QueriesInFlight(w') = RemoveAt(QueriesInFlight(w), i)
       /\ w'.ev.result.tag = "array" /\ w'.ev.result.items # <<>> =>
            /\ w'.display = "block"
            /\ w'.rendered =
                 Prefix(w'.ev.result.items, w.options.maxSuggestions)

C17_NeverCancelled == [][C17_Step]_vars

\* the timer of a later call has fired, the source has answered at once and
\* the panel shows that answer; the promise of an earlier call for another
\* query is still in flight
C17_Witness ==
  /\ w.ev.type = "timer"
  /\ w.ev.answers = w.ev.calls
  /\ w.ev.result.tag = "array"
  /\ Visible
  /\ Shown = Prefix(w.ev.result.items, w.options.maxSuggestions)
  /\ w.fetches # <<>>
  /\ \A i \in 1 .. Len(w.fetches) : <<w.fetches[i].query>> # w.ev.calls

(***************************************************************************)
(* C18.  While the panel is hidden, a Down, Up, Enter or Escape key leaves *)
(* the active index, the suggestion list, the field's value, the panel's   *)
(* visibility and the debounce timer as they were, and calls neither the   *)
(* suggestion source nor onSelect.                                         *)
(***************************************************************************)
NavigationKeys == {"ArrowDown", "ArrowUp", "Enter", "Escape"}

PressedWhileHidden ==
  /\ w'.ev.type = "keydown"
  /\ w'.ev.key \in NavigationKeys
  /\ w.display = "none"

C18_Step ==
  PressedWhileHidden =>
    /\ w'.activeIndex = w.activeIndex
    /\ w'.suggestions = w.suggestions
    /\ w'.rendered = w.rendered
    /\ w'.inputValue = w.inputValue
    /\ w'.display = w.display
    /\ w'.debounceTimer = w.debounceTimer
    /\ w'.timers = w.timers
    /\ w'.ev.calls = <<>>
    /\ w'.ev.selected = <<>>

C18_HiddenKeysDoNothing == [][C18_Step]_vars

\* Down has been pressed on a hidden panel (a visible one would have had the
\* default suppressed) that keeps a list, while a debounce timer is pending
C18_Witness ==
  /\ w.ev.type = "keydown"
  /\ w.ev.key = "ArrowDown"
  /\ ~w.ev.prevented
  /\ ~Visible
  /\ w.suggestions.isArray
  /\ w.suggestions.items # <<>>
  /\ w.debounceTimer # "null"
  /\ w.timers # <<>>

(***************************************************************************)
(* C19.  While the panel is visible, Down, Up, Enter and Escape each       *)
(* suppress the field's default key behaviour in every state, Enter with   *)
(* no active item included.  As the code has it: Down, Up and Escape       *)
(* always do, Enter does exactly when an item is active, so that Enter     *)
(* with no active item keeps its default (it submits the field's form).    *)
(***************************************************************************)
C19_Original_Step ==
  \A key \in NavigationKeys : Pressed(key) => w'.ev.prevented

C19_Original == [][C19_Original_Step]_vars

C19_Step ==
  /\ \A key \in NavigationKeys \ {"Enter"} : Pressed(key) => w'.ev.prevented
  /\ Pressed("Enter") => (w'.ev.prevented <=> w.activeIndex >= 0)

C19_KeysSuppressDefault == [][C19_Step]_vars

\* Enter has been pressed on a visible panel with no active item: the panel
\* is still visible and the default was not suppressed
C19_Witness ==
  /\ w.ev.type = "keydown"
  /\ w.ev.key = "Enter"
  /\ Visible
  /\ w.activeIndex = -1
  /\ ~w.ev.prevented

(***************************************************************************)
(* C20.  Every render resets the active index: right after a step in which *)
(* the source has delivered a non-empty array, no item is active, whether  *)
(* or not an item of the list shown before was.                            *)
(***************************************************************************)
Delivered ==
  /\ w.ev.type \in {"timer", "fetched"}
  /\ w.ev.result.tag = "array"
  /\ w.ev.result.items # <<>>

C20_RenderResetsActiveIndex ==
  Delivered => w.activeIndex = -1

\* the array arrived while an item of the visible list was active
C20_Witness ==
  /\ Delivered
  /\ w.ev.deselected
  /\ Visible
  /\ w.activeIndex = -1

(***************************************************************************)
(* C21.  An input or focus event that leaves the field focused with an     *)
(* empty trimmed value does not hide the panel as a value below minChars   *)
(* does: it leaves visibility and active index alone and sets the one      *)
(* pending timer, for the empty query; unless another user event follows,  *)
(* the source's answer to the empty query eventually arrives and the panel *)
(* then shows its truncation, or is hidden if the answer is empty.         *)
(***************************************************************************)
AfterEmptyEvent == w.ev.type \in {"input", "focus"} /\ EmptyWithFocus

DisturbedEmpty ==
  \/ w.ev.type \in UserEvents \ {"input", "focus"}
  \/ w.ev.type \in {"input", "focus"} /\ ~EmptyWithFocus

C21_Step ==
  (w'.ev.type \in {"input", "focus"}
     /\ Len(trim(w'.inputValue)) = 0 /\ w'.focused) =>
    /\ Len(w'.timers) = 1
    /\ w'.timers[1].query = <<>>
    /\ w'.timers[1].handle
    /\ w'.ev.calls = <<>>
    /\ w'.display = w.display
    /\ w'.activeIndex = w.activeIndex

C21_EmptyQueryIsFetched ==
  /\ AfterEmptyEvent ~> (Answered(<<>>) \/ DisturbedEmpty)
  /\ [][C21_Step]_vars

\* the answer to the empty query has arrived in the focused, empty field and
\* has more items than the panel may show, with minChars above zero
C21_Witness ==
  /\ w.ev.type \in {"timer", "fetched"}
  /\ w.ev.answers = <<<<>>>>
  /\ EmptyWithFocus
  /\ w.options.minChars > 0
  /\ Len(w.ev.result.items) > w.options.maxSuggestions
  /\ Visible
  /\ Len(w.rendered) = w.options.maxSuggestions

(***************************************************************************)
(* C22.  With the dropdown icon present, the icon carries the class        *)
(* 'autocomplete-icon-active' exactly when the panel is visible, in every  *)
(* reachable state; a step that changes the panel's visibility changes the *)
(* icon's class with it, and no step changes one without the other.        *)
(***************************************************************************)
C22_Step ==
  w.dropdownIcon = "set" =>
    (w'.display # w.display <=> w'.iconActive # w.iconActive)

C22_IconFollowsPanel ==
  /\ [](w.dropdownIcon = "set" => (w.iconActive <=> Visible))
  /\ [][C22_Step]_vars

\* Escape has hidden a visible panel, and the icon is no longer active
C22_Witness ==
  /\ w.dropdownIcon = "set"
  /\ w.ev.type = "keydown"
  /\ w.ev.key = "Escape"
  /\ w.ev.prevented
  /\ ~Visible
  /\ ~w.iconActive

(***************************************************************************)
(* C23.  After any positioning, with the input's rectangle (top, bottom,   *)
(* left, width), viewport height H and panel height h: the panel is above  *)
(* the input (its top edge at top - h, marked 'autocomplete-above')        *)
(* exactly when H - bottom < h and top > H - bottom, and otherwise below   *)
(* (its top edge at bottom, marked 'autocomplete-below'); exactly one of   *)
(* the two marks is set, the panel is as wide as the input and its left    *)
(* edge is at the input's left edge.                                       *)
(***************************************************************************)
PlacedAbove ==
  /\ w.innerHeight - w.inputRect.bottom < w.offsetHeight
  /\ w.inputRect.top > w.innerHeight - w.inputRect.bottom

C23_Positioning ==
  w.phase = "shown" =>
    /\ PlacedAbove =>
         /\ viewportTop(w) = w.inputRect.top - w.offsetHeight
         /\ w.classList = {"autocomplete-above"}
    /\ ~PlacedAbove =>
         /\ viewportTop(w) = w.inputRect.bottom
         /\ w.classList = {"autocomplete-below"}
    /\ w.width = px(w.inputRect.width)
    /\ viewportLeft(w) = w.inputRect.left

\* the page is scrolled and the panel of autocomplete.ts is above the input
C23_Witness ==
  /\ w.phase = "shown"
  /\ w.build = "ts"
  /\ w.scrollY > 0
  /\ w.scrollX > 0
  /\ PlacedAbove
  /\ w.classList = {"autocomplete-above"}
  /\ w.top = px(w.inputRect.top + w.scrollY - w.offsetHeight)

(***************************************************************************)
(* C24.  A click on the icon while the panel is visible hides the panel,   *)
(* and the panel stays hidden until the next user event: the step of a     *)
(* timer or of a promise that follows such a click leaves it hidden.       *)
(***************************************************************************)
\* the icon has just been clicked and the click has hidden a visible panel
IconClosedPanel == w.ev.type = "iconClick" /\ w.ev.hid

C24_Step ==
  /\ (w'.ev.type = "iconClick" /\ w.display = "block") => w'.display = "none"
  /\ (IconClosedPanel /\ w'.ev.type \notin UserEvents) => w'.display = "none"

C24_IconClosesPanel == [][C24_Step]_vars

\* the part that holds: the click on a visible panel leaves it hidden
C24_ClickHides ==
  [][(w'.ev.type = "iconClick" /\ w.display = "block") =>
       (w'.display = "none" /\ w'.ev.hid)]_vars

(***************************************************************************)
(* C25.  In every reachable state a hidden panel has active index -1, and  *)
(* the state the constructor leaves is hidden, with active index -1 and an *)
(* empty suggestion list.                                                  *)
(***************************************************************************)
C25_HiddenHasNoActiveItem ==
  /\ ~Visible => w.activeIndex = -1
  /\ w.ev.type = "constructor" =>
       /\ ~Visible
       /\ w.activeIndex = -1
       /\ w.suggestions = [isArray |-> TRUE, items |-> <<>>]

\* Enter on the active item has selected it and hidden the panel
C25_Witness ==
  /\ w.ev.type = "keydown"
  /\ w.ev.key = "Enter"
  /\ w.ev.selected # <<>>
  /\ w.ev.hid
  /\ ~Visible
  /\ w.activeIndex = -1

(***************************************************************************)
(* C26.  In every reachable state with the panel visible, the stored       *)
(* suggestion list is a non-empty sequence and the rendered items are its  *)
(* items, one for one and in order (so that Enter on active index i        *)
(* commits the item displayed at position i).                              *)
(***************************************************************************)
ListIsRendered ==
  /\ w.suggestions.isArray
  /\ w.suggestions.items # <<>>
  /\ w.rendered = w.suggestions.items

C26_VisibleListIsRendered == Visible => ListIsRendered

\* it holds of autocomplete.ts
C26_OnTS == (w.build = "ts" /\ Visible) => ListIsRendered

(***************************************************************************)
(* C27.  In every reachable state with the panel visible, the rendered     *)
(* item at position k carries the active class exactly when k is the       *)
(* active index: at most one item is highlighted, and none when the active *)
(* index is -1.                                                            *)
(***************************************************************************)
C27_ActiveClassFollowsIndex ==
  (Visible /\ TracksClasses(w)) =>
    \A k \in 0 .. Len(w.rendered) - 1 :
      k \in w.highlighted <=> k = w.activeIndex

\* the pointer has entered the second item
C27_Witness ==
  /\ Visible
  /\ w.ev.type = "mouseenter"
  /\ w.ev.index = 1
  /\ w.activeIndex = 1
  /\ w.highlighted = {1}

(***************************************************************************)
(* C28.  Once a selection, Escape or the delayed hide after a blur has     *)
(* dismissed the panel, it stays hidden until the next input, focus or     *)
(* icon click: the step of a debounce timer or of a promise that follows   *)
(* the dismissal leaves the panel hidden.                                  *)
(***************************************************************************)
\* the events the panel may open again on
ReopeningEvents == {"input", "focus", "iconClick"}

\* a click on an item, Enter on the active item, Escape or the timer of the
\* blur listener has just hidden a visible panel
Dismissed ==
  /\ w.ev.hid
  /\ \/ w.ev.type \in {"click", "blurTimer"}
     \/ w.ev.type = "keydown" /\ w.ev.key \in {"Enter", "Escape"}

C28_Step ==
  (Dismissed /\ w'.ev.type \notin ReopeningEvents) => w'.display = "none"

C28_DismissedStaysHidden == [][C28_Step]_vars

\* the part that holds: the dismissal leaves the panel hidden with no item
\* active, and no step but a timer's or a promise's opens it again before
\* the next input, focus or icon click
C28_OnlyFetchReopens ==
  /\ [](Dismissed => (~Visible /\ w.activeIndex = -1))
  /\ [][(Dismissed /\ w'.ev.type \notin ReopeningEvents \cup {"timer", "fetched"})
          => w'.display = "none"]_vars

(***************************************************************************)
(* C29.  A debounce timer pending or a promise in flight when destroy() is *)
(* called does not afterwards call the source, render the panel or make    *)
(* the panel visible.                                                      *)
(***************************************************************************)
\* destroy() has just run
JustDestroyed == w.ev.type = "destroy"

C29_Step ==
  (JustDestroyed /\ w'.ev.type \in {"timer", "fetched"}) =>
    /\ w'.ev.calls = <<>>
    /\ w'.rendered = w.rendered
    /\ w'.display = "none"

C29_TeardownQuiesces == [][C29_Step]_vars

\* the registrations destroy() leaves behind apart, the timer and the
\* promises are what it leaves: it cancels neither
C29_DestroyKeepsTimer ==
  [][w'.ev.type = "destroy" =>
       (w'.timers = w.timers /\ w'.fetches = w.fetches)]_vars

(***************************************************************************)
(* C30.  Run side by side on the same events and the same source results,  *)
(* autocomplete.ts and autocomplete.js show the same lifecycle at every    *)
(* step: the same visibility, stored list, active index, pending timer and *)
(* callback calls, whatever the source returns, faults and results that    *)
(* are no sequence included.                                               *)
(***************************************************************************)
C30_BuildsAgree == Lifecycle(w.ts) = Lifecycle(w.js)

\* the part that holds: the builds that agree before a step agree after it
\* unless the step delivers a result that is no sequence
C30_AgreeButOnNull ==
  [][(Lifecycle(w.ts) = Lifecycle(w.js) /\ w'.ts.ev.result.tag # "null")
       => Lifecycle(w'.ts) = Lifecycle(w'.js)]_vars

====
